---- MODULE Spec2Model ----
(***************************************************************************)
(* Model of the SMARTIES embedding service (embedding_service.py) and its  *)
(* command interface (embedding_service_interface.py).                     *)
(*                                                                         *)
(* Text is a sequence of one-character strings, so that str.replace, the   *)
(* regular-expression substitutions and str.split act on characters as in  *)
(* the source.  A vector is a run-length encoded sequence of elements in   *)
(* units of 1e-6 (or the non-finite values), so that the L2 norm and the   *)
(* zero-vector test are computed from the elements.                        *)
(***************************************************************************)
EXTENDS Integers, Sequences, FiniteSets, TLC

(***************************************************************************)
(* Python values that cross a call boundary, tagged by their type          *)
(***************************************************************************)
None == [t |-> "None"]
Str(s) == [t |-> "str", v |-> s]
List(l) == [t |-> "list", v |-> l]
Bool(b) == [t |-> "bool", v |-> b]
IntValue(n) == [t |-> "int", v |-> n]
NdArray(runs) == [t |-> "ndarray", runs |-> runs]
\* an exception leaving a call, in the place of the value returned
Raise(e) == [t |-> "raise", v |-> e]

(***************************************************************************)
(* Python str primitives                                                   *)
(***************************************************************************)
Chars(s) == [i \in 1..Len(s) |-> SubSeq(s, i, i)]

UpperLetters == Chars("ABCDEFGHIJKLMNOPQRSTUVWXYZ")
LowerLetters == Chars("abcdefghijklmnopqrstuvwxyz")
DigitChars == Chars("0123456789")
\* code-point order of the characters the model uses (str comparison, list.sort)
AsciiOrder ==
    <<"\t", "\n", " ", "!", "&", ",", "-", ".", "/">> \o DigitChars
    \o <<":", ";", "?">> \o UpperLetters \o <<"_">> \o LowerLetters

Range(f) == {f[i] : i \in DOMAIN f}
OrdTable == [c \in Range(AsciiOrder) |-> CHOOSE i \in DOMAIN AsciiOrder : AsciiOrder[i] = c]
Ord(c) == OrdTable[c]

\* str.isspace / regex \s
SpaceChars == {" ", "\t", "\n"}
IsSpace(c) == c \in SpaceChars
\* regex \w
WordChars == Range(UpperLetters) \cup Range(LowerLetters) \cup Range(DigitChars) \cup {"_"}
IsWord(c) == c \in WordChars

LowerTable ==
    [c \in Range(UpperLetters) |-> LowerLetters[CHOOSE i \in DOMAIN UpperLetters : UpperLetters[i] = c]]
LowerChar(c) == IF c \in DOMAIN LowerTable THEN LowerTable[c] ELSE c
\* str.lower
lower(s) == [i \in DOMAIN s |-> LowerChar(s[i])]

RECURSIVE lstrip(_)
lstrip(s) == IF s = <<>> THEN s
             ELSE IF IsSpace(Head(s)) THEN lstrip(Tail(s)) ELSE s
RECURSIVE rstrip(_)
rstrip(s) == IF s = <<>> THEN s
             ELSE IF IsSpace(s[Len(s)]) THEN rstrip(SubSeq(s, 1, Len(s) - 1)) ELSE s
\* str.strip
strip(s) == rstrip(lstrip(s))

\* s[i:].startswith(p)
MatchAt(s, i, p) == /\ i + Len(p) - 1 <= Len(s)
                    /\ SubSeq(s, i, i + Len(p) - 1) = p
\* str.startswith
startswith(s, p) == MatchAt(s, 1, p)
\* p in s
Contains(s, p) == \E i \in 1..(Len(s) + 1) : MatchAt(s, i, p)

RECURSIVE replaceFrom(_, _, _, _)
replaceFrom(s, i, old, new) ==
    IF i > Len(s) THEN <<>>
    ELSE IF MatchAt(s, i, old)
         THEN new \o replaceFrom(s, i + Len(old), old, new)
         ELSE <<s[i]>> \o replaceFrom(s, i + 1, old, new)
\* str.replace(old, new) with old non-empty: leftmost non-overlapping occurrences
replace(s, old, new) == replaceFrom(s, 1, old, new)

RECURSIVE splitFrom(_, _, _)
splitFrom(s, i, cur) ==
    IF i > Len(s) THEN (IF cur = <<>> THEN <<>> ELSE <<cur>>)
    ELSE IF IsSpace(s[i])
         THEN (IF cur = <<>> THEN <<>> ELSE <<cur>>) \o splitFrom(s, i + 1, <<>>)
         ELSE splitFrom(s, i + 1, Append(cur, s[i]))
\* str.split() with no argument: the whitespace-separated tokens
split(s) == splitFrom(s, 1, <<>>)

RECURSIVE join(_, _)
\* sep.join(list)
join(sep, l) == IF l = <<>> THEN <<>>
                ELSE IF Len(l) = 1 THEN l[1]
                ELSE l[1] \o sep \o join(sep, Tail(l))

RECURSIVE StrLess(_, _)
\* a < b on str (code-point lexicographic order)
StrLess(a, b) ==
    IF b = <<>> THEN FALSE
    ELSE IF a = <<>> THEN TRUE
    ELSE IF Head(a) = Head(b) THEN StrLess(Tail(a), Tail(b))
    ELSE Ord(Head(a)) < Ord(Head(b))

RECURSIVE InsertSorted(_, _)
InsertSorted(l, x) ==
    IF l = <<>> THEN <<x>>
    ELSE IF StrLess(x, Head(l)) THEN <<x>> \o l
    ELSE <<Head(l)>> \o InsertSorted(Tail(l), x)
RECURSIVE sort(_)
\* list.sort() on a list of str
sort(l) == IF l = <<>> THEN <<>> ELSE InsertSorted(sort(Tail(l)), Head(l))

(***************************************************************************)
(* The regular-expression substitutions of the canonicalizers              *)
(***************************************************************************)
\* the ingredient character class with the colon kept
IngredientKeptChars_WithColon == WordChars \cup SpaceChars \cup {",", ".", "-", ":"}
\* re.sub of [^\w\s,.-] by the empty string
IngredientKeptChars == WordChars \cup SpaceChars \cup {",", ".", "-"}
SubKeepIngredientChars(s) == SelectSeq(s, LAMBDA c : c \in IngredientKeptChars)
\* re.sub of [^\w\s-] by the empty string
NameKeptChars == WordChars \cup SpaceChars \cup {"-"}
SubKeepNameChars(s) == SelectSeq(s, LAMBDA c : c \in NameKeptChars)

RECURSIVE SkipSpaces(_, _)
\* the first index >= i of s that holds no whitespace (Len(s)+1 when none)
SkipSpaces(s, i) == IF i <= Len(s) /\ IsSpace(s[i]) THEN SkipSpaces(s, i + 1) ELSE i

RECURSIVE SubSpacesFrom(_, _)
SubSpacesFrom(s, i) ==
    IF i > Len(s) THEN <<>>
    ELSE IF IsSpace(s[i]) THEN <<" ">> \o SubSpacesFrom(s, SkipSpaces(s, i))
    ELSE <<s[i]>> \o SubSpacesFrom(s, i + 1)
\* re.sub(r'\s+', ' ', s)
SubSpaces(s) == SubSpacesFrom(s, 1)

RECURSIVE SubCommasFrom(_, _)
SubCommasFrom(s, i) ==
    IF i > Len(s) THEN <<>>
    ELSE IF s[i] = "," /\ SkipSpaces(s, i + 1) <= Len(s) /\ s[SkipSpaces(s, i + 1)] = ","
         THEN <<",">> \o SubCommasFrom(s, SkipSpaces(s, i + 1) + 1)
         ELSE <<s[i]>> \o SubCommasFrom(s, i + 1)
\* re.sub(r',\s*,', ',', s): leftmost non-overlapping matches, one pass
SubCommas(s) == SubCommasFrom(s, 1)

RECURSIVE SkipHyphens(_, _)
SkipHyphens(s, i) == IF i <= Len(s) /\ s[i] = "-" THEN SkipHyphens(s, i + 1) ELSE i
RECURSIVE SubHyphensFrom(_, _)
SubHyphensFrom(s, i) ==
    IF i > Len(s) THEN <<>>
    ELSE IF s[i] = "-" THEN <<"-">> \o SubHyphensFrom(s, SkipHyphens(s, i))
    ELSE <<s[i]>> \o SubHyphensFrom(s, i + 1)
\* re.sub(r'-+', '-', s)
SubHyphens(s) == SubHyphensFrom(s, 1)

\* regex \b at the gap before index i (1 <= i <= Len(s)+1)
WordBoundary(s, i) ==
    LET before == i > 1 /\ IsWord(s[i - 1])
        after  == i <= Len(s) /\ IsWord(s[i])
    IN  before # after

\* the alternative of \b(a1|a2|...)\b that matches at i, in the order written (0 when none)
AltMatchAt(s, i, alts) ==
    LET ok(k) == MatchAt(s, i, alts[k]) /\ WordBoundary(s, i + Len(alts[k]))
    IN  IF WordBoundary(s, i) /\ \E k \in DOMAIN alts : ok(k)
        THEN CHOOSE k \in DOMAIN alts : ok(k) /\ \A j \in 1..(k - 1) : ~ok(j)
        ELSE 0

RECURSIVE SubWordsFrom(_, _, _)
SubWordsFrom(s, i, alts) ==
    IF i > Len(s) THEN <<>>
    ELSE IF AltMatchAt(s, i, alts) # 0
         THEN SubWordsFrom(s, i + Len(alts[AltMatchAt(s, i, alts)]), alts)
         ELSE <<s[i]>> \o SubWordsFrom(s, i + 1, alts)
\* re.sub(r'\b(a1|a2|...)\b', '', s)
SubWords(s, alts) == SubWordsFrom(s, 1, alts)

BrandSuffixes == <<Chars("brand"), Chars("co."), Chars("inc."), Chars("ltd."), Chars("llc")>>
GenericDescriptors == <<Chars("original"), Chars("classic"), Chars("traditional")>>

(***************************************************************************)
(* The canonicalizers                                                      *)
(***************************************************************************)
\* the string literals of the canonicalizers
S_ingredients_colon == Chars("ingredients:")
S_contains_colon == Chars("contains:")
S_may_contain_colon == Chars("may contain:")
S_wheat_flour == Chars("wheat flour")
S_flour_wheat == Chars("flour wheat")
S_cane_sugar == Chars("cane sugar")
S_sugar == Chars("sugar")
S_sea_salt == Chars("sea salt")
S_salt == Chars("salt")
S_natural_flavor == Chars("natural flavor")
S_natural_flavoring == Chars("natural flavoring")
S_artificial_flavor == Chars("artificial flavor")
S_artificial_flavoring == Chars("artificial flavoring")
S_choc_chip == Chars("choc chip")
S_chocolate_chip == Chars("chocolate chip")
S_choc_dot_chip == Chars("choc. chip")
S_w_slash == Chars("w/")
S_with == Chars("with")
S_amp == Chars("&")
S_and == Chars("and")
S_en_colon == Chars("en:")
S_allergens_colon == Chars("allergens:")
S_no_known_allergens == Chars("no known allergens")
S_contains_space == Chars("contains ")
S_comma_space == Chars(", ")

\* the first four statements of _preprocess_ingredients: strip, lower, remove the markers
MarkerStripped(ingredients_text) ==
    LET p0 == lower(strip(ingredients_text))
        p1 == strip(replace(p0, S_ingredients_colon, <<>>))
        p2 == strip(replace(p1, S_contains_colon, <<>>))
    IN  strip(replace(p2, S_may_contain_colon, <<>>))

\* the five replace statements run twice over
PhraseRewrites_Repeated(processed) ==
    LET chain(q) ==
            replace(replace(replace(replace(replace(q, S_wheat_flour, S_flour_wheat),
                S_cane_sugar, S_sugar), S_sea_salt, S_salt),
                S_natural_flavor, S_natural_flavoring),
                S_artificial_flavor, S_artificial_flavoring)
    IN  chain(chain(processed))

\* the five replace statements, in the order written
PhraseRewrites(processed) ==
    LET p4 == replace(processed, S_wheat_flour, S_flour_wheat)
        p5 == replace(p4, S_cane_sugar, S_sugar)
        p6 == replace(p5, S_sea_salt, S_salt)
        p7 == replace(p6, S_natural_flavor, S_natural_flavoring)
    IN  replace(p7, S_artificial_flavor, S_artificial_flavoring)

_preprocess_ingredients(ingredients_text) ==
    LET p8 == PhraseRewrites(MarkerStripped(ingredients_text))
    IN  strip(SubCommas(SubSpaces(SubKeepIngredientChars(p8))))

_normalize_product_name(product_name) ==
    LET p0 == lower(strip(product_name))
        p1 == SubWords(p0, BrandSuffixes)
        p2 == SubWords(p1, GenericDescriptors)
        p3 == replace(p2, S_choc_chip, S_chocolate_chip)
        p4 == replace(p3, S_choc_dot_chip, S_chocolate_chip)
        p5 == replace(p4, S_w_slash, S_with)
        p6 == replace(p5, S_amp, S_and)
    IN  strip(SubHyphens(SubSpaces(SubKeepNameChars(p6))))

\* the dict allergen_mapping, as its keys and values in the order written
AllergenKeys ==
    <<Chars("milk"), Chars("eggs"), Chars("tree-nuts"), Chars("tree_nuts"), Chars("peanuts"),
      Chars("shellfish"), Chars("fish"), Chars("wheat"), Chars("soy"), Chars("sesame")>>
AllergenValues ==
    <<Chars("dairy"), Chars("egg"), Chars("tree nuts"), Chars("tree nuts"), Chars("peanut"),
      Chars("shellfish"), Chars("fish"), Chars("gluten"), Chars("soy"), Chars("sesame")>>
\* allergen_mapping.get(t, t)
allergen_mapping(t) ==
    IF \E k \in DOMAIN AllergenKeys : AllergenKeys[k] = t
    THEN AllergenValues[CHOOSE k \in DOMAIN AllergenKeys : AllergenKeys[k] = t]
    ELSE t

\* the first branch of _process_allergen_profile: the raw token list
allergen_list(allergens) ==
    IF allergens.t = "str"
    THEN split(replace(replace(allergens.v, <<",">>, <<" ">>), <<";">>, <<" ">>))
    ELSE [i \in DOMAIN allergens.v |-> strip(allergens.v[i])]

\* the loop body with the table consulted before the prefixes are removed
NormalizeAllergen_MapFirst(allergen) ==
    replace(replace(allergen_mapping(lower(allergen)), S_en_colon, <<>>), S_allergens_colon, <<>>)

\* the body of the for loop for one token: lower, strip the markers, map
NormalizeAllergen(allergen) ==
    allergen_mapping(replace(replace(lower(allergen), S_en_colon, <<>>), S_allergens_colon, <<>>))

RECURSIVE normalized_allergens_NoDedup(_, _)
\* the for loop without the "not in normalized_allergens" test
normalized_allergens_NoDedup(l, acc) ==
    IF l = <<>> THEN acc
    ELSE LET allergen == Head(l)
             normalized == NormalizeAllergen(allergen)
         IN  IF allergen = <<>> \/ normalized = <<>>
             THEN normalized_allergens_NoDedup(Tail(l), acc)
             ELSE normalized_allergens_NoDedup(Tail(l), Append(acc, normalized))

RECURSIVE normalized_allergens(_, _)
\* the for loop: acc is the list built so far
normalized_allergens(l, acc) ==
    IF l = <<>> THEN acc
    ELSE LET allergen == Head(l)
             normalized == NormalizeAllergen(allergen)
         IN  IF allergen = <<>> THEN normalized_allergens(Tail(l), acc)
             ELSE IF normalized # <<>> /\ normalized \notin Range(acc)
                  THEN normalized_allergens(Tail(l), Append(acc, normalized))
                  ELSE normalized_allergens(Tail(l), acc)

\* the text assembly without the "contains " prefix
FormatAllergens_NoPrefix(tokens) ==
    IF tokens = <<>> THEN S_no_known_allergens
    ELSE join(S_comma_space, sort(tokens))

\* the text assembly without the sort
FormatAllergens_Unsorted(tokens) ==
    IF tokens = <<>> THEN S_no_known_allergens
    ELSE S_contains_space \o join(S_comma_space, tokens)

\* the text assembly: the literal, or "contains " + the sorted tokens joined
FormatAllergens(tokens) ==
    IF tokens = <<>> THEN S_no_known_allergens
    ELSE S_contains_space \o join(S_comma_space, sort(tokens))

_process_allergen_profile(allergens) ==
    FormatAllergens(normalized_allergens(allergen_list(allergens), <<>>))

(***************************************************************************)
(* Vectors.  An ndarray is a sequence of runs [e, n]: n consecutive        *)
(* elements equal to e.  A finite element is an integer number of 1e-6.    *)
(***************************************************************************)
Fin(m) == [k |-> "fin", m |-> m]
NaN == [k |-> "nan", m |-> 0]
Inf == [k |-> "inf", m |-> 1]
Run(e, n) == [e |-> e, n |-> n]

RECURSIVE len(_)
\* len(embedding)
len(runs) == IF runs = <<>> THEN 0 ELSE Head(runs).n + len(Tail(runs))

\* np.any(np.isnan(embedding)) or np.any(np.isinf(embedding))
HasNanOrInf(runs) == \E i \in DOMAIN runs : runs[i].n > 0 /\ runs[i].e.k \in {"nan", "inf"}

Abs(m) == IF m < 0 THEN 0 - m ELSE m
Min(a, b) == IF a < b THEN a ELSE b
Million == 1000 * 1000
\* A sum of squares is a pair <<hi, lo>> standing for hi * 1e-6 + lo * 1e-12 with
\* lo < 1e6; hi saturates at SatHi (a squared norm of 5.0, above both thresholds).
SatHi == 5 * Million

\* m * m for an element of m * 1e-6
Square(m) ==
    IF Abs(m) >= 3 * Million THEN <<SatHi, 0>>
    ELSE LET q == Abs(m) \div 1000
             r == Abs(m) % 1000
             cross == 2 * q * r
             lo == (cross % 1000) * 1000 + r * r
         IN  <<q * q + (cross \div 1000) + (lo \div Million), lo % Million>>

\* n equal squares added up
Times(sq, n) ==
    LET lo == sq[2] * n
    IN  <<Min(Min(sq[1], SatHi) * n + (lo \div Million), SatHi), lo % Million>>

Plus(x, y) ==
    LET lo == x[2] + y[2]
    IN  <<Min(x[1] + y[1] + (lo \div Million), SatHi), lo % Million>>

RECURSIVE SumSquares(_)
\* np.linalg.norm(embedding) ** 2 for a finite vector
SumSquares(runs) ==
    IF runs = <<>> THEN <<0, 0>>
    ELSE Plus(Times(Square(Head(runs).e.m), Head(runs).n), SumSquares(Tail(runs)))

\* the lower bound of the magnitude test left out
MagnitudeBelow_Never(runs) == FALSE

\* magnitude < 0.1, as magnitude^2 < 0.01
MagnitudeBelow(runs) == SumSquares(runs)[1] < 10000
\* magnitude >= 2.0 in place of magnitude > 2.0
MagnitudeAbove_Inclusive(runs) == SumSquares(runs)[1] >= 4 * Million

\* magnitude > 2.0, as magnitude^2 > 4.0
MagnitudeAbove(runs) ==
    \/ SumSquares(runs)[1] > 4 * Million
    \/ SumSquares(runs)[1] = 4 * Million /\ SumSquares(runs)[2] > 0

\* np.allclose(embedding, 0, atol=1e-6): every |x| <= 1e-6
AllCloseZero(runs) == \A i \in DOMAIN runs : runs[i].n > 0 => Abs(runs[i].e.m) <= 1

(***************************************************************************)
(* The quality gate                                                        *)
(***************************************************************************)
S_contains == Chars("contains")
S_no_known == Chars("no known")
expected_dim == 384
generic_terms == {Chars("product"), Chars("item"), Chars("food"), Chars("snack")}

\* The outcome of one call: the value returned and the message logged
\* ("" when none).  A method call on a text that is None raises inside the
\* try block and is caught by the except clause.
Verdict(ok, message) == [ret |-> Bool(ok), log |-> message]

\* the type-specific rules outside the try block: a text that is None raises
TypeSpecificValidation_Uncaught(embedding_type, original_text) ==
    IF embedding_type \in {"ingredient", "product_name", "allergen"} /\ original_text.t # "str"
    THEN [ret |-> Raise("AttributeError"), log |-> ""]
    ELSE IF embedding_type = "ingredient" /\ Len(split(original_text.v)) < 1
    THEN Verdict(FALSE, "Ingredient text too short for meaningful embedding")
    ELSE IF embedding_type = "product_name" /\ strip(original_text.v) \in generic_terms
    THEN Verdict(FALSE, "Product name too generic")
    ELSE IF embedding_type = "allergen"
            /\ ~(startswith(original_text.v, S_contains) \/ startswith(original_text.v, S_no_known))
    THEN Verdict(FALSE, "Allergen text format unexpected")
    ELSE Verdict(TRUE, "")

TypeSpecificValidation(embedding_type, original_text) ==
    IF embedding_type = "ingredient"
    THEN IF original_text.t # "str" THEN Verdict(FALSE, "Error validating embedding quality")
         ELSE IF Len(split(original_text.v)) < 1
              THEN Verdict(FALSE, "Ingredient text too short for meaningful embedding")
              ELSE Verdict(TRUE, "")
    ELSE IF embedding_type = "product_name"
    THEN IF original_text.t # "str" THEN Verdict(FALSE, "Error validating embedding quality")
         ELSE IF strip(original_text.v) \in generic_terms
              THEN Verdict(FALSE, "Product name too generic")
              ELSE Verdict(TRUE, "")
    ELSE IF embedding_type = "allergen"
    THEN IF original_text.t # "str" THEN Verdict(FALSE, "Error validating embedding quality")
         ELSE IF ~(startswith(original_text.v, S_contains)
                   \/ startswith(original_text.v, S_no_known))
              THEN Verdict(FALSE, "Allergen text format unexpected")
              ELSE Verdict(TRUE, "")
    ELSE Verdict(TRUE, "")

MagnitudeRejects(runs) == MagnitudeBelow(runs) \/ MagnitudeAbove(runs)

\* the gate without its dimension check
ValidateCall_AnyDimension(embedding, embedding_type, original_text) ==
    IF embedding.t = "None" \/ len(embedding.runs) = 0
    THEN Verdict(FALSE, "Empty embedding generated")
    ELSE IF HasNanOrInf(embedding.runs)
    THEN Verdict(FALSE, "Embedding contains NaN or infinite values")
    ELSE IF MagnitudeRejects(embedding.runs)
    THEN Verdict(FALSE, "Unusual embedding magnitude")
    ELSE IF AllCloseZero(embedding.runs)
    THEN Verdict(FALSE, "Zero embedding generated")
    ELSE TypeSpecificValidation(embedding_type, original_text)

ValidateCall(embedding, embedding_type, original_text) ==
    IF embedding.t = "None" \/ len(embedding.runs) = 0
    THEN Verdict(FALSE, "Empty embedding generated")
    ELSE IF len(embedding.runs) # expected_dim
    THEN Verdict(FALSE, "Unexpected embedding dimension")
    ELSE IF HasNanOrInf(embedding.runs)
    THEN Verdict(FALSE, "Embedding contains NaN or infinite values")
    ELSE IF MagnitudeRejects(embedding.runs)
    THEN Verdict(FALSE, "Unusual embedding magnitude")
    ELSE IF AllCloseZero(embedding.runs)
    THEN Verdict(FALSE, "Zero embedding generated")
    ELSE TypeSpecificValidation(embedding_type, original_text)

\* the bool the method returns
_validate_embedding_quality(embedding, embedding_type, original_text) ==
    ValidateCall(embedding, embedding_type, original_text).ret.v

(***************************************************************************)
(* The service.  svc is [is_loaded, model]; env is what the external       *)
(* capability does during one call: load_ok (the SentenceTransformer       *)
(* constructor returns rather than raises) and enc (encode raises, or the  *)
(* rows it returns).  An operation yields a call record: the value         *)
(* returned, the service state after it, and what it did on the way.       *)
(***************************************************************************)
NoModel == "None"
Loaded == "SentenceTransformer"

\* load_model without its "if self.is_loaded: return True"
load_model_Reloading(svc, env) ==
    IF env.load_ok
    THEN [ret |-> TRUE, is_loaded |-> TRUE, model |-> Loaded, ctor |-> 1]
    ELSE [ret |-> FALSE, is_loaded |-> svc.is_loaded, model |-> svc.model, ctor |-> 1]

load_model(svc, env) ==
    IF svc.is_loaded
    THEN [ret |-> TRUE, is_loaded |-> TRUE, model |-> svc.model, ctor |-> 0]
    ELSE IF env.load_ok
         THEN [ret |-> TRUE, is_loaded |-> TRUE, model |-> Loaded, ctor |-> 1]
         ELSE [ret |-> FALSE, is_loaded |-> FALSE, model |-> svc.model, ctor |-> 1]

\* the guard with a successful first load treated as a miss for the call that made it
EnsureLoaded_ColdMiss(svc, env) ==
    IF svc.is_loaded
    THEN [failed |-> FALSE, is_loaded |-> TRUE, model |-> svc.model, ctor |-> 0, load |-> "not called"]
    ELSE LET l == load_model(svc, env)
         IN  [failed |-> TRUE, is_loaded |-> l.is_loaded, model |-> l.model, ctor |-> l.ctor,
              load |-> IF l.ret THEN "True" ELSE "False"]

\* the guard "not self.is_loaded and not self.load_model()" of both generate methods:
\* load_model is called only when is_loaded is false
EnsureLoaded(svc, env) ==
    IF svc.is_loaded
    THEN [failed |-> FALSE, is_loaded |-> TRUE, model |-> svc.model, ctor |-> 0, load |-> "not called"]
    ELSE LET l == load_model(svc, env)
         IN  [failed |-> ~l.ret, is_loaded |-> l.is_loaded, model |-> l.model, ctor |-> l.ctor,
              load |-> IF l.ret THEN "True" ELSE "False"]

\* a call record of a method that returned before touching the model
Untouched(svc, ret) ==
    [ret |-> ret, is_loaded |-> svc.is_loaded, model |-> svc.model, ctor |-> 0, enc |-> 0,
     sent |-> <<>>, load |-> "not called", raised |-> FALSE, gate |-> "not called",
     text |-> None, vec |-> None]

\* generate_embedding with the except clause of encode missing and a second attempt made
generate_embedding_Retrying(svc, text, env) ==
    LET l == EnsureLoaded(svc, env)
        base == [Untouched(svc, None) EXCEPT !.is_loaded = l.is_loaded, !.model = l.model,
                                             !.ctor = l.ctor, !.load = l.load, !.text = Str(text)]
    IN  IF l.failed THEN base
        ELSE IF env.enc.t = "raise"
             THEN [base EXCEPT !.enc = 2, !.sent = <<text, text>>, !.raised = TRUE,
                               !.ret = Raise("Exception")]
             ELSE [base EXCEPT !.enc = 1, !.sent = <<text>>, !.ret = env.enc.rows[1],
                               !.vec = env.enc.rows[1]]

generate_embedding(svc, text, env) ==
    LET l == EnsureLoaded(svc, env)
        base == [Untouched(svc, None) EXCEPT !.is_loaded = l.is_loaded, !.model = l.model,
                                             !.ctor = l.ctor, !.load = l.load, !.text = Str(text)]
    IN  IF l.failed THEN base
        ELSE IF env.enc.t = "raise"
             THEN [base EXCEPT !.enc = 1, !.sent = <<text>>, !.raised = TRUE]
             ELSE [base EXCEPT !.enc = 1, !.sent = <<text>>, !.ret = env.enc.rows[1],
                               !.vec = env.enc.rows[1]]

generate_embeddings_batch(svc, texts, env) ==
    LET l == EnsureLoaded(svc, env)
        base == [Untouched(svc, None) EXCEPT !.is_loaded = l.is_loaded, !.model = l.model,
                                             !.ctor = l.ctor, !.load = l.load]
    IN  IF l.failed THEN base
        ELSE IF texts = <<>> THEN [base EXCEPT !.ret = NdArray(<<>>)]
        ELSE IF env.enc.t = "raise"
             THEN [base EXCEPT !.enc = 1, !.sent = texts, !.raised = TRUE]
             ELSE [base EXCEPT !.enc = 1, !.sent = texts, !.ret = env.enc]

\* the field generators' tail with the validation result ignored
GenerateAndValidate_Unchecked(svc, processed, embedding_type, env) ==
    LET g == generate_embedding(svc, processed, env)
    IN  IF g.ret.t # "None"
        THEN [g EXCEPT !.gate = IF _validate_embedding_quality(g.ret, embedding_type, Str(processed))
                                THEN "True" ELSE "False"]
        ELSE g

\* the tail shared by the three field generators: generate, then validate
GenerateAndValidate(svc, processed, embedding_type, env) ==
    LET g == generate_embedding(svc, processed, env)
    IN  IF g.ret.t # "None"
        THEN IF ~_validate_embedding_quality(g.ret, embedding_type, Str(processed))
             THEN [g EXCEPT !.ret = None, !.gate = "False"]
             ELSE [g EXCEPT !.gate = "True"]
        ELSE g

\* "not x" for None, a str, a list or an int
IsFalsy(x) ==
    \/ x.t = "None"
    \/ (x.t \in {"str", "list"} /\ x.v = <<>>)
    \/ (x.t = "int" /\ x.v = 0)

\* generate_ingredient_embedding without its guard on empty text
generate_ingredient_embedding_Unguarded(svc, ingredients_text, env) ==
    GenerateAndValidate(svc, _preprocess_ingredients(ingredients_text.v), "ingredient", env)

generate_ingredient_embedding(svc, ingredients_text, env) ==
    IF IsFalsy(ingredients_text) THEN Untouched(svc, None)
    ELSE IF ingredients_text.t # "str" THEN Untouched(svc, Raise("AttributeError"))
    ELSE IF strip(ingredients_text.v) = <<>> THEN Untouched(svc, None)
    ELSE GenerateAndValidate(svc, _preprocess_ingredients(ingredients_text.v), "ingredient", env)

generate_product_name_embedding(svc, product_name, env) ==
    IF IsFalsy(product_name) THEN Untouched(svc, None)
    ELSE IF product_name.t # "str" THEN Untouched(svc, Raise("AttributeError"))
    ELSE IF strip(product_name.v) = <<>> THEN Untouched(svc, None)
    ELSE GenerateAndValidate(svc, _normalize_product_name(product_name.v), "product_name", env)

generate_allergen_embedding(svc, allergens, env) ==
    IF IsFalsy(allergens) THEN Untouched(svc, None)
    ELSE IF allergens.t \notin {"str", "list"} THEN Untouched(svc, Raise("TypeError"))
    ELSE GenerateAndValidate(svc, _process_allergen_profile(allergens), "allergen", env)

(***************************************************************************)
(* The command interface (EmbeddingServiceInterface)                       *)
(***************************************************************************)
Missing == [t |-> "missing"]
Rows(rs) == [t |-> "rows", rows |-> rs]
Args(text, texts) == [t |-> "dict", text |-> text, texts |-> texts]
Failure(message) == [t |-> "dict", success |-> FALSE, error |-> message]
\* args.get(key, default) for the value held under key
Get(value, default) == IF value = Missing THEN default ELSE value

\* a text method of the interface without its "if not text" guard
InterfaceTextMethod_Unguarded(svc, text, c) ==
    IF c.ret.t = "raise" THEN c
    ELSE IF c.ret.t # "None"
         THEN [c EXCEPT !.ret = [t |-> "dict", success |-> TRUE, embedding |-> c.ret]]
         ELSE [c EXCEPT !.ret = Failure("Failed to generate embedding")]

\* the three text methods of the interface differ only in the service method they call
InterfaceTextMethod(svc, text, c) ==
    IF IsFalsy(text) THEN Untouched(svc, Failure("Text is required"))
    ELSE IF c.ret.t = "raise" THEN c
    ELSE IF c.ret.t # "None"
         THEN [c EXCEPT !.ret = [t |-> "dict", success |-> TRUE, embedding |-> c.ret]]
         ELSE [c EXCEPT !.ret = Failure("Failed to generate embedding")]

Interface_generate_ingredient_embedding(svc, text, env) ==
    InterfaceTextMethod(svc, text, generate_ingredient_embedding(svc, text, env))
Interface_generate_product_name_embedding(svc, text, env) ==
    InterfaceTextMethod(svc, text, generate_product_name_embedding(svc, text, env))
Interface_generate_allergen_embedding(svc, text, env) ==
    InterfaceTextMethod(svc, text, generate_allergen_embedding(svc, text, env))

Interface_generate_embeddings_batch(svc, texts, env) ==
    IF IsFalsy(texts) \/ texts.t # "list"
    THEN Untouched(svc, Failure("Texts must be a non-empty list"))
    ELSE LET c == generate_embeddings_batch(svc, texts.v, env)
         IN  IF c.ret.t # "None"
             THEN [c EXCEPT !.ret = [t |-> "dict", success |-> TRUE, embeddings |-> c.ret]]
             ELSE [c EXCEPT !.ret = Failure("Failed to generate batch embeddings")]

Interface_get_model_info(svc) ==
    Untouched(svc, [t |-> "dict", success |-> TRUE, is_loaded |-> svc.is_loaded])

\* handle_command without its try/except
Caught_Propagating(c) == c

\* the except clause of handle_command turns an exception into a failure value
Caught(c) ==
    IF c.ret.t = "raise" THEN [c EXCEPT !.ret = Failure(c.ret.v)] ELSE c

\* the else branch of handle_command answering as get_model_info does
UnknownCommand_AsModelInfo(svc, command) == Interface_get_model_info(svc)

\* the else branch of handle_command
UnknownCommand(svc, command) == Untouched(svc, Failure("Unknown command: " \o command))

KnownCommands ==
    {"get_model_info", "generate_ingredient_embedding", "generate_product_name_embedding",
     "generate_allergen_embedding", "generate_embeddings_batch"}

handle_command(svc, command, args, env) ==
    IF command = "get_model_info" THEN Caught(Interface_get_model_info(svc))
    \* args.get on a value that is not a dict raises AttributeError inside the try
    ELSE IF command \in KnownCommands /\ args.t # "dict"
    THEN Caught(Untouched(svc, Raise("AttributeError")))
    ELSE IF command = "generate_ingredient_embedding"
    THEN Caught(Interface_generate_ingredient_embedding(svc, Get(args.text, Str(<<>>)), env))
    ELSE IF command = "generate_product_name_embedding"
    THEN Caught(Interface_generate_product_name_embedding(svc, Get(args.text, Str(<<>>)), env))
    ELSE IF command = "generate_allergen_embedding"
    THEN Caught(Interface_generate_allergen_embedding(svc, Get(args.text, Str(<<>>)), env))
    ELSE IF command = "generate_embeddings_batch"
    THEN Caught(Interface_generate_embeddings_batch(svc, Get(args.texts, List(<<>>)), env))
    ELSE UnknownCommand(svc, command)

(***************************************************************************)
(* Inputs of the state machine                                             *)
(***************************************************************************)
\* the length of the lists given to generate_embeddings_batch
MaxBatch == 2

Whitespace == <<" ", " ", " ", "\n", "\t", " ", " ", " ">>

IngredientRaws ==
    {<<>>, Whitespace, Chars("ingredients:"), Chars("sugar"),
     Chars("Ingredients: Cane Sugar,, sea salt!!")}
ProductRaws ==
    {<<>>, Whitespace, Chars("Original"), Chars("Food"), Chars("Choc Chip Cookies w/ Nuts")}
AllergenRaws ==
    {Str(<<>>), List(<<>>), Str(Whitespace), Str(Chars("milk, eggs")),
     List(<<Chars("wheat"), Chars("eggs"), Chars("milk")>>), List(<<Chars(" ")>>),
     Str(Chars("een:n:milk")), List(<<Chars("corn")>>)}
PlainTexts == {<<>>, Chars("sugar")}

\* vectors the model may return for one text
UnitVector == NdArray(<<Run(Fin(Million), 1), Run(Fin(0), expected_dim - 1)>>)
NormTwoVector == NdArray(<<Run(Fin(2 * Million), 1), Run(Fin(0), expected_dim - 1)>>)
SmallVector == NdArray(<<Run(Fin(1000), expected_dim)>>)
NanVector == NdArray(<<Run(NaN, 1), Run(Fin(Million), 1), Run(Fin(0), expected_dim - 2)>>)
ShortVector == NdArray(<<Run(Fin(Million), 1), Run(Fin(0), 255)>>)
ModelVectors == {UnitVector, SmallVector, NanVector, ShortVector}
BatchVectors == {UnitVector, SmallVector}

EncodeFailure == Raise("Exception")
SingleEnvs ==
    [load_ok : BOOLEAN, enc : {EncodeFailure} \cup {Rows(<<v>>) : v \in ModelVectors}]
BatchEnvs(n) ==
    [load_ok : BOOLEAN, enc : {EncodeFailure} \cup {Rows(rs) : rs \in [1..n -> BatchVectors]}]
BatchInputs == UNION {[1..n -> PlainTexts] : n \in 0..MaxBatch}

Commands ==
    {"get_model_info", "generate_ingredient_embedding", "generate_product_name_embedding",
     "generate_allergen_embedding", "generate_embeddings_batch", "shutdown", "Get_Model_Info", ""}
CommandArgs ==
    {Args(Missing, Missing), Args(Str(<<>>), Missing), Args(Str(Chars("sugar")), Missing),
     Args(Str(Chars("Original")), Missing), Args(Missing, List(<<>>)),
     Args(Missing, List(<<Chars("sugar"), <<>>, Chars("salt")>>)),
     \* values of another shape than the commands expect
     None, Args(None, None), Args(IntValue(5), IntValue(5)), Args(IntValue(0), Str(Chars("sugar"))),
     Args(List(<<Chars("milk")>>), Missing)}

\* the number of threads that call the service at the same time
NumThreads == 2
Threads == 1..NumThreads
\* a thread that is in no call: pc is the statement it executes next, built the
\* number of SentenceTransformer objects its calls have constructed, ret the
\* value its last call returned
NotReturned == [t |-> "no call has returned"]
ThreadIdle == [pc |-> "idle", built |-> 0, ret |-> NotReturned]

(***************************************************************************)
(* State                                                                   *)
(***************************************************************************)
VARIABLES
    is_loaded,   \* EmbeddingService.is_loaded
    model,       \* EmbeddingService.model
    iface,       \* an EmbeddingServiceInterface has been constructed on the service
    last,        \* the last call made: its operation, argument and call record
    thread       \* for each caller thread, where it stands in generate_embedding

vars == <<is_loaded, model, iface, last, thread>>

Svc == [is_loaded |-> is_loaded, model |-> model]

\* which return statement a call left through
ReturnPath(c) ==
    IF c.gate = "False" THEN "quality-rejection"
    ELSE IF c.load = "False" \/ c.raised THEN "generation-failure"
    ELSE IF c.gate = "True" \/ c.enc > 0 THEN "generated"
    ELSE "not-attempted"

\* the state after EmbeddingService.__init__
Init ==
    /\ is_loaded = FALSE
    /\ model = NoModel
    /\ iface = FALSE
    /\ last = [op |-> "__init__", arg |-> None, c |-> Untouched([is_loaded |-> FALSE, model |-> NoModel], None)]
    /\ thread = [t \in Threads |-> ThreadIdle]

\* the effect of a call on the state
Record(op, arg, c) ==
    /\ is_loaded' = c.is_loaded
    /\ model' = c.model
    /\ last' = [op |-> op, arg |-> arg, c |-> c]
    /\ UNCHANGED thread

LoadModelCall(svc, env) ==
    LET l == load_model(svc, env)
    IN  [Untouched(svc, Bool(l.ret)) EXCEPT !.is_loaded = l.is_loaded, !.model = l.model,
            !.ctor = l.ctor, !.load = IF l.ret THEN "True" ELSE "False"]

LoadModel ==
    \E env \in SingleEnvs :
        /\ Record("load_model", None, LoadModelCall(Svc, env))
        /\ UNCHANGED iface

GenerateEmbedding ==
    \E text \in PlainTexts, env \in SingleEnvs :
        /\ Record("generate_embedding", Str(text), generate_embedding(Svc, text, env))
        /\ UNCHANGED iface

GenerateEmbeddingsBatch ==
    \E texts \in BatchInputs :
        \E env \in BatchEnvs(Len(texts)) :
            /\ Record("generate_embeddings_batch", List(texts), generate_embeddings_batch(Svc, texts, env))
            /\ UNCHANGED iface

GenerateIngredientEmbedding ==
    \E raw \in IngredientRaws, env \in SingleEnvs :
        /\ Record("generate_ingredient_embedding", Str(raw),
                  generate_ingredient_embedding(Svc, Str(raw), env))
        /\ UNCHANGED iface

GenerateProductNameEmbedding ==
    \E raw \in ProductRaws, env \in SingleEnvs :
        /\ Record("generate_product_name_embedding", Str(raw),
                  generate_product_name_embedding(Svc, Str(raw), env))
        /\ UNCHANGED iface

GenerateAllergenEmbedding ==
    \E raw \in AllergenRaws, env \in SingleEnvs :
        /\ Record("generate_allergen_embedding", raw, generate_allergen_embedding(Svc, raw, env))
        /\ UNCHANGED iface

\* EmbeddingServiceInterface.__init__: wraps the service and loads the model
InterfaceInit ==
    /\ ~iface
    /\ iface' = TRUE
    /\ \E env \in SingleEnvs : Record("EmbeddingServiceInterface", None, LoadModelCall(Svc, env))

CommandEnvs(command, args) ==
    IF command = "generate_embeddings_batch" /\ args.t = "dict" /\ args.texts.t = "list"
    THEN BatchEnvs(Len(args.texts.v))
    ELSE SingleEnvs

HandleCommand ==
    /\ iface
    /\ \E command \in Commands, args \in CommandArgs :
        \E env \in CommandEnvs(command, args) :
            /\ Record("handle_command", [command |-> command, args |-> args],
                      handle_command(Svc, command, args, env))
            /\ UNCHANGED iface

Next ==
    \/ LoadModel
    \/ GenerateEmbedding
    \/ GenerateEmbeddingsBatch
    \/ GenerateIngredientEmbedding
    \/ GenerateProductNameEmbedding
    \/ GenerateAllergenEmbedding
    \/ InterfaceInit
    \/ HandleCommand

Spec == Init /\ [][Next]_vars

(***************************************************************************)
(* Properties of the service                                               *)
(***************************************************************************)
FieldGenerators ==
    {"generate_ingredient_embedding", "generate_product_name_embedding",
     "generate_allergen_embedding"}

embedding_type_of(op) ==
    IF op = "generate_ingredient_embedding" THEN "ingredient"
    ELSE IF op = "generate_product_name_embedding" THEN "product_name"
    ELSE "allergen"

\* the canonical text a field generator derives from its raw argument
CanonicalOf(op, raw) ==
    IF op = "generate_ingredient_embedding" THEN _preprocess_ingredients(raw.v)
    ELSE IF op = "generate_product_name_embedding" THEN _normalize_product_name(raw.v)
    ELSE _process_allergen_profile(raw)

WhitespaceOnly(raw) == raw.t = "str" /\ raw.v # <<>> /\ \A i \in DOMAIN raw.v : IsSpace(raw.v[i])

\* C1: a field generator called with the empty raw input ("" or, for allergens, [])
\* returns None, and that call neither constructs the model nor calls encode, whether
\* or not the model is loaded.
EmptyInputRejectedWithoutModel ==
    (last.op \in FieldGenerators /\ last.arg.v = <<>>) =>
        /\ last.c.ret = None
        /\ last.c.enc = 0
        /\ last.c.ctor = 0
        /\ last.c.load = "not called"

EmptyInputRejectedWitness ==
    /\ last.op = "generate_allergen_embedding"
    /\ last.arg = List(<<>>)
    /\ is_loaded
    /\ last.c.ret = None
    /\ last.c.enc = 0

\* C2: a field generator called with a whitespace-only string returns None and never
\* invokes the model, for the allergen generator as for the other two.
WhitespaceInputRejectedWithoutModel ==
    (last.op \in FieldGenerators /\ WhitespaceOnly(last.arg)) =>
        /\ last.c.ret = None
        /\ last.c.enc = 0
        /\ last.c.ctor = 0

\* C3: whenever a field generator returns a vector, the quality gate accepts that vector
\* for the generator's field kind and the canonical text of the raw input; when the gate
\* rejects the vector the model produced, the generator returns None.
GateFailureNeverSurfaced ==
    last.op \in FieldGenerators =>
        LET kind == embedding_type_of(last.op)
            text == Str(CanonicalOf(last.op, last.arg))
        IN  /\ last.c.ret.t \in {"None", "ndarray"}
            /\ last.c.ret.t = "ndarray" =>
                   /\ last.c.ret = last.c.vec
                   /\ _validate_embedding_quality(last.c.ret, kind, text)
            /\ (last.c.vec.t = "ndarray" /\ ~_validate_embedding_quality(last.c.vec, kind, text)) =>
                   last.c.ret = None

GateFailureWitness ==
    /\ last.op = "generate_product_name_embedding"
    /\ last.c.vec = ShortVector
    /\ last.c.gate = "False"
    /\ last.c.ret = None

\* C4: a field generator never calls the model with an empty canonical text and never
\* returns a vector for one.
EmptyCanonicalNeverEmbedded ==
    last.op \in FieldGenerators =>
        /\ \A i \in DOMAIN last.c.sent : last.c.sent[i] # <<>>
        /\ last.c.ret.t = "ndarray" => CanonicalOf(last.op, last.arg) # <<>>

\* the call of l made again on service state svc with the model behaving as env
Redo(l, svc, env) ==
    IF l.op = "generate_ingredient_embedding" THEN generate_ingredient_embedding(svc, l.arg, env)
    ELSE IF l.op = "generate_product_name_embedding" THEN generate_product_name_embedding(svc, l.arg, env)
    ELSE IF l.op = "generate_allergen_embedding" THEN generate_allergen_embedding(svc, l.arg, env)
    ELSE handle_command(svc, l.arg.command, l.arg.args, env)

\* C5: the value a caller receives from a field generator, or from the command
\* interface, when the gate rejected the vector differs from the value the same call
\* returns when the model fails to load or encode raises.
QualityRejectionDistinctFromFailure ==
    (last.op \in FieldGenerators \cup {"handle_command"} /\ ReturnPath(last.c) = "quality-rejection") =>
        \A svc \in [is_loaded : BOOLEAN, model : {NoModel, Loaded}], env \in SingleEnvs :
            ReturnPath(Redo(last, svc, env)) = "generation-failure" =>
                Redo(last, svc, env).ret # last.c.ret

GeneratingOps == FieldGenerators \cup {"generate_embedding", "generate_embeddings_batch"}

\* C6: when the model fails to load or encode raises, generate_embedding, the field
\* generators and generate_embeddings_batch return None (no vector, no partial batch,
\* no exception), and encode is called at most once per call.
CapabilityFailureReturnsNone ==
    last.op \in GeneratingOps =>
        /\ last.c.enc <= 1
        /\ last.c.ctor <= 1
        /\ (last.c.load = "False" \/ last.c.raised) =>
               /\ last.c.ret = None
               /\ last.c.enc = (IF last.c.raised THEN 1 ELSE 0)

CapabilityFailureWitness ==
    /\ last.op = "generate_embeddings_batch"
    /\ Len(last.arg.v) = 2
    /\ last.c.raised
    /\ last.c.ret = None

\* C13: for an input list of length n >= 1, a batch that generate_embeddings_batch
\* returns holds exactly n results in input order, with a failure at each index
\* whose text is empty or whitespace-only and a vector at every other index.
BatchFailuresPositioned ==
    (last.op = "generate_embeddings_batch" /\ Len(last.arg.v) >= 1 /\ last.c.ret.t = "rows") =>
        /\ Len(last.c.ret.rows) = Len(last.arg.v)
        /\ \A i \in DOMAIN last.arg.v :
               (strip(last.arg.v[i]) = <<>>) <=> (last.c.ret.rows[i].t # "ndarray")

\* C14: generate_embeddings_batch([]) returns an empty result and neither constructs
\* the model nor calls encode, whether the model is loaded or not.
EmptyBatchInvokesNothing ==
    (last.op = "generate_embeddings_batch" /\ last.arg = List(<<>>)) =>
        /\ last.c.ret = NdArray(<<>>)
        /\ last.c.ctor = 0
        /\ last.c.enc = 0

\* what a call record shows when no operation of the embedding service was called
NoServiceCall(c) ==
    /\ c.ctor = 0
    /\ c.enc = 0
    /\ c.load = "not called"
    /\ c.gate = "not called"
    /\ c.text = None

\* C15: handle_command with a command name other than the five known ones returns
\* {success: false, error: "Unknown command: <name>"} for any args and calls no
\* operation of the embedding service.
UnknownCommandRejected ==
    (/\ last.op = "handle_command"
     /\ last.arg.command \notin {"get_model_info", "generate_ingredient_embedding",
                                 "generate_product_name_embedding", "generate_allergen_embedding",
                                 "generate_embeddings_batch"}) =>
        /\ last.c.ret = [t |-> "dict", success |-> FALSE,
                         error |-> "Unknown command: " \o last.arg.command]
        /\ NoServiceCall(last.c)

UnknownCommandWitness ==
    /\ last.op = "handle_command"
    /\ last.arg.command = "shutdown"
    /\ last.arg.args = None
    /\ last.c.ret = Failure("Unknown command: shutdown")

\* C16: a text command whose args hold no 'text', or an empty one, returns
\* {success: false, error: "Text is required"} and calls neither a generator of the
\* service nor the model.
TextRequired ==
    (/\ last.op = "handle_command"
     /\ last.arg.command \in FieldGenerators
     /\ last.arg.args.t = "dict"
     /\ last.arg.args.text \in {Missing, Str(<<>>)}) =>
        /\ last.c.ret = [t |-> "dict", success |-> FALSE, error |-> "Text is required"]
        /\ NoServiceCall(last.c)

TextRequiredWitness ==
    /\ last.op = "handle_command"
    /\ last.arg.command = "generate_allergen_embedding"
    /\ last.arg.args = Args(Missing, Missing)
    /\ ~is_loaded
    /\ last.c.ret = Failure("Text is required")

\* C17: for every command name and every args value handle_command returns a dict
\* with a boolean 'success' and raises nothing; a failure carries an 'error'
\* message, a successful embedding command carries its vector or vectors.
AllFailuresAreValues ==
    last.op = "handle_command" =>
        /\ last.c.ret.t = "dict"
        /\ last.c.ret.success \in BOOLEAN
        /\ ~last.c.ret.success => ("error" \in DOMAIN last.c.ret /\ last.c.ret.error # "")
        /\ (last.c.ret.success /\ last.arg.command \in FieldGenerators) =>
               ("embedding" \in DOMAIN last.c.ret /\ last.c.ret.embedding.t = "ndarray")
        /\ (last.c.ret.success /\ last.arg.command = "generate_embeddings_batch") =>
               /\ "embeddings" \in DOMAIN last.c.ret
               /\ last.c.ret.embeddings.t = "rows"
               /\ Len(last.c.ret.embeddings.rows) = Len(last.arg.args.texts.v)

AllFailuresAreValuesWitness ==
    /\ last.op = "handle_command"
    /\ last.arg.command = "generate_ingredient_embedding"
    /\ last.arg.args = Args(IntValue(5), IntValue(5))
    /\ last.c.ret = Failure("AttributeError")

FreshService == [is_loaded |-> FALSE, model |-> NoModel]

OneHot(m, n) == NdArray(<<Run(Fin(m), 1), Run(Fin(0), n - 1)>>)
Uniform(m, n) == NdArray(<<Run(Fin(m), n)>>)

GateVectors ==
    {None, NdArray(<<>>)}
    \cup {OneHot(m, expected_dim) :
            m \in {0, 1, 2, 99999, 100000, 100001, Million, 0 - Million, 2 * Million - 1,
                   2 * Million, 2 * Million + 1, 3 * Million, 10 * Million}}
    \cup {Uniform(m, expected_dim) :
            m \in {0, 1, 0 - 1, 2, 1000, 5103, 5104, 51031, 102062, 102063, 10 * Million}}
    \cup {OneHot(Million, n) : n \in {1, 256, expected_dim - 1, expected_dim + 1}}
    \cup {NdArray(<<Run(Fin(2 * Million), 1), Run(Fin(1), 1), Run(Fin(0), expected_dim - 2)>>),
          NdArray(<<Run(Fin(Million), 1), Run(NaN, 1), Run(Fin(0), expected_dim - 2)>>),
          NdArray(<<Run(Inf, 1), Run(Fin(0), expected_dim - 1)>>),
          NdArray(<<Run(NaN, 256)>>),
          NdArray(<<Run(Fin(1), expected_dim - 1), Run(Fin(100000), 1)>>)}
GateKinds == {"ingredient", "product_name", "allergen", "nutrition"}
GateTexts ==
    {None, Str(<<>>), Str(<<" ">>), Str(Chars("wheat flour, sugar")), Str(Chars("product")),
     Str(Chars(" food ")), Str(Chars("foods")), Str(Chars("contains dairy")),
     Str(Chars("no known allergens")), Str(Chars("dairy, egg"))}

InitGate ==
    /\ is_loaded = TRUE
    /\ model = Loaded
    /\ iface = FALSE
    /\ thread = [t \in Threads |-> ThreadIdle]
    /\ \E e \in GateVectors, k \in GateKinds, t \in GateTexts :
           last = [op |-> "validate pending",
                   arg |-> [embedding |-> e, embedding_type |-> k, original_text |-> t],
                   c |-> [ret |-> None, log |-> ""]]

ValidateEmbeddingQuality ==
    /\ last.op = "validate pending"
    /\ last' = [op |-> "_validate_embedding_quality", arg |-> last.arg,
                c |-> ValidateCall(last.arg.embedding, last.arg.embedding_type,
                                   last.arg.original_text)]
    /\ UNCHANGED <<is_loaded, model, iface, thread>>

NextGate == ValidateEmbeddingQuality

SpecGate == InitGate /\ [][NextGate]_vars

Validated == last.op = "_validate_embedding_quality"
FieldKinds == {"ingredient", "product_name", "allergen"}

\* the distinct element values of a vector
Elements(embedding) ==
    {embedding.runs[i].e : i \in {j \in DOMAIN embedding.runs : embedding.runs[j].n > 0}}

\* the six rules of the gate, each on its own; rule i is read only when rules 1..i-1 hold
Rule(i, embedding, kind, text) ==
    CASE i = 1 -> embedding.t = "ndarray" /\ len(embedding.runs) >= 1
      [] i = 2 -> len(embedding.runs) = 384
      [] i = 3 -> \A x \in Elements(embedding) : x.k = "fin"
      [] i = 4 -> LET sq == SumSquares(embedding.runs)
                  IN  sq[1] >= 10000 /\ (sq[1] < 4 * Million \/ sq = <<4 * Million, 0>>)
      [] i = 5 -> \E x \in Elements(embedding) : x.m > 1 \/ x.m < 0 - 1
      [] i = 6 -> CASE kind = "ingredient" -> split(text.v) # <<>>
                    [] kind = "product_name" ->
                           strip(text.v) \notin {Chars("product"), Chars("item"), Chars("food"), Chars("snack")}
                    [] kind = "allergen" ->
                           \E p \in {Chars("contains"), Chars("no known")} :
                               Len(text.v) >= Len(p) /\ \A j \in 1..Len(p) : text.v[j] = p[j]
                    [] OTHER -> TRUE

RuleMessages ==
    <<{"Empty embedding generated"}, {"Unexpected embedding dimension"},
      {"Embedding contains NaN or infinite values"}, {"Unusual embedding magnitude"},
      {"Zero embedding generated"},
      {"Ingredient text too short for meaningful embedding", "Product name too generic",
       "Allergen text format unexpected"}>>

\* the first rule that fails, 0 when all six pass
FirstFailing(embedding, kind, text) ==
    IF \A i \in 1..6 : Rule(i, embedding, kind, text) THEN 0
    ELSE CHOOSE i \in 1..6 :
            /\ \A j \in 1..(i - 1) : Rule(j, embedding, kind, text)
            /\ ~Rule(i, embedding, kind, text)

\* C7: for the three field kinds the gate returns True exactly when all six rules pass;
\* the rules are checked in order (the warning logged is that of the first failing rule);
\* a vector of a length other than 384 is rejected whatever else holds of it.
GateAcceptsIffAllRulesPass ==
    (Validated /\ last.arg.embedding_type \in FieldKinds /\ last.arg.original_text.t = "str") =>
        LET failing == FirstFailing(last.arg.embedding, last.arg.embedding_type,
                                    last.arg.original_text)
        IN  /\ last.c.ret = Bool(failing = 0)
            /\ failing # 0 => last.c.log \in RuleMessages[failing]
            /\ (last.arg.embedding.t = "ndarray" /\ len(last.arg.embedding.runs) # 384) =>
                   last.c.ret = Bool(FALSE)

GateAcceptsWitness ==
    /\ Validated
    /\ last.arg.embedding_type = "product_name"
    /\ last.arg.original_text = Str(Chars("foods"))
    /\ last.arg.embedding = Uniform(51031, expected_dim)
    /\ last.c.ret = Bool(TRUE)

FiniteOfExpectedDim(embedding) ==
    /\ embedding.t = "ndarray"
    /\ len(embedding.runs) = 384
    /\ \A x \in Elements(embedding) : x.k = "fin"

MagnitudeRuleRejected == last.c.log = "Unusual embedding magnitude"
\* n < 0.1, n >= 2.0 and n > 2.0 for the L2 norm n, read off the squared norm
NormBelowTenth(embedding) == SumSquares(embedding.runs)[1] < 10000
NormAtLeastTwo(embedding) == SumSquares(embedding.runs)[1] >= 4 * Million
NormAboveTwo(embedding) ==
    NormAtLeastTwo(embedding) /\ SumSquares(embedding.runs) # <<4 * Million, 0>>

\* C9 as stated: for a finite vector of 384 elements the magnitude rule passes exactly
\* when 0.1 <= n < 2.0.
MagnitudeBandHalfOpen ==
    (Validated /\ FiniteOfExpectedDim(last.arg.embedding)) =>
        (MagnitudeRuleRejected <=>
            (NormBelowTenth(last.arg.embedding) \/ NormAtLeastTwo(last.arg.embedding)))

\* C9 as amended: for a finite vector of 384 elements the magnitude rule passes exactly
\* when 0.1 <= n <= 2.0; a vector of all 0.001 and one of all 10.0 are rejected and a
\* unit-norm vector with an ingredient text is accepted.
MagnitudeBandClosed ==
    (Validated /\ FiniteOfExpectedDim(last.arg.embedding)) =>
        /\ MagnitudeRuleRejected <=>
               (NormBelowTenth(last.arg.embedding) \/ NormAboveTwo(last.arg.embedding))
        /\ last.arg.embedding \in {Uniform(1000, 384), Uniform(10 * Million, 384)} =>
               (MagnitudeRuleRejected /\ last.c.ret = Bool(FALSE))
        /\ (/\ last.arg.embedding = OneHot(Million, 384)
            /\ last.arg.embedding_type = "ingredient"
            /\ last.arg.original_text = Str(Chars("wheat flour, sugar"))) =>
               last.c.ret = Bool(TRUE)

MagnitudeBandWitness ==
    /\ Validated
    /\ last.arg.embedding = OneHot(2 * Million, expected_dim)
    /\ last.arg.embedding_type = "ingredient"
    /\ last.arg.original_text = Str(Chars("wheat flour, sugar"))
    /\ last.c.ret = Bool(TRUE)

(***************************************************************************)
(* The canonicalizers on their own: the initial state holds the raw input  *)
(* of one call, the action makes the call.                                 *)
(***************************************************************************)
\* the length of the allergen lists
MaxTokens == 3
\* the number of fragments a raw ingredient text or product name is made of
MaxFragments == 2

AllergenTokens ==
    {Chars("wheat"), Chars("eggs"), Chars("milk"), Chars("en:milk"), Chars(" Milk "), <<>>}
AllergenLists == UNION {[1..n -> AllergenTokens] : n \in 0..MaxTokens}
AllergenStrings ==
    {<<>>, Chars("wheat, eggs; milk"), Chars("milk wheat eggs"), Chars("en:milk,milk"),
     Chars(" , ; "), Chars("tree-nuts;tree_nuts"), Chars("Soy,en:Peanuts;corn")}
\* lists that hold the remaining keys of the table, prefixes, blanks and unknown tokens
AllergenKeyLists == {<<AllergenKeys[k]>> : k \in DOMAIN AllergenKeys}
AllergenEdgeLists ==
    {<<Chars("tree-nuts"), Chars("tree_nuts")>>, <<Chars(" ")>>, <<Chars(" "), <<>>>>,
     <<Chars("en:")>>, <<Chars("en:Wheat")>>, <<Chars("allergens:soy")>>,
     <<Chars("en:allergens:EGGS")>>, <<Chars("corn")>>, <<Chars("dairy")>>, <<Chars("gluten"), Chars("wheat")>>,
     <<Chars("Tree Nuts"), Chars("tree-nuts")>>, <<Chars("milken:")>>,
     <<Chars("sesame"), Chars("corn"), Chars("peanuts"), Chars("fish")>>}
\* raw ingredient texts with a marker nested inside another, or in the middle
IngredientMarkerRaws ==
    {Chars("ingredingredients:ients:"), Chars("sugar, contains: milk"),
     Chars("contcontains:ains: nuts"), Chars("may may contain:contain: soy"),
     Chars("Ingredients: contains: may contain: salt"), Chars("may ingredients:contain: egg")}

\* raw ingredient texts with runs of punctuation, phrases split by wider whitespace,
\* and phrases next to or inside one another
IngredientEdgeRaws ==
    {Chars("flour,,,sugar"), Chars("flour, , ,sugar"), Chars("flour,,sugar"),
     Chars("wheat flour,, sugar;; eggs!! butter??"),
     Chars("Cane  Sugar"), Chars("sea") \o <<"\t">> \o Chars("salt"), Chars("se!a salt"),
     Chars("Wheat Flour, Natural Flavor"), Chars("natural flavoring"),
     Chars("cane sugartificial flavor"), Chars("cane cane sugar"), Chars("wheat flourcane sugar"),
     Chars("sea sea saltsalt"), Chars("cane sea salt"), Chars("artificial flavor wheat flour")}

\* raw product names with brand words, descriptors, abbreviations and hyphen runs
ProductEdgeRaws ==
    {Chars("Acme Co. Cookies"), Chars("Acme Inc."), Chars("Acme Ltd. Tea"), Chars("Brand X"),
     Chars("Acme LLC"), Chars("TRADITIONAL jam"), Chars("The Classic"), Chars("Original Cookies"),
     Chars("Choc  Chip"), Chars("Choc Chip Cookies w/ Nuts & Cream"), Chars("Choc. Chip"),
     Chars("choc original chip"), Chars("a -- b"), Chars("-a-"), Chars("a - - b")}
\* allergen tokens with a marker nested in another, a marker next to a blank,
\* or whitespace inside the token
AllergenMarkerLists ==
    {<<Chars("een:n:milk")>>, <<Chars("allergallergens:ens:milk")>>, <<Chars("en: milk")>>,
     <<Chars("milk en:")>>, <<Chars("tree  nuts")>>, <<Chars("allergens:en:milk")>>,
     <<Chars("aen:llergens:milk")>>, <<Chars("EN:Milk"), Chars("men:ilk")>>}

RECURSIVE Concat(_)
Concat(parts) == IF parts = <<>> THEN <<>> ELSE Head(parts) \o Concat(Tail(parts))
Pieces(fragments) == {Concat(f) : f \in UNION {[1..n -> fragments] : n \in 0..MaxFragments}}

IngredientFragments ==
    {Chars("ingred"), Chars("Ingredients:"), Chars("ients:"), Chars("cane sugar"),
     Chars("wheat flour"), Chars("sea "), Chars("salt"), <<",">>, <<" ">>, Chars("!!")}
ProductFragments ==
    {Chars("Original"), Chars("Co."), Chars("Acme"), Chars("Choc Chip"), Chars("w/"), <<"&">>,
     <<" ">>, <<"-">>, Chars("cookies"), <<"s">>}

InitCanon ==
    /\ is_loaded = FALSE
    /\ model = NoModel
    /\ iface = FALSE
    /\ thread = [t \in Threads |-> ThreadIdle]
    /\ \E op \in {"_preprocess_ingredients", "_normalize_product_name", "_process_allergen_profile"} :
         \E raw \in (IF op = "_preprocess_ingredients"
                     THEN {Str(r) : r \in Pieces(IngredientFragments) \cup IngredientMarkerRaws
                                              \cup IngredientEdgeRaws}
                     ELSE IF op = "_normalize_product_name"
                     THEN {Str(r) : r \in Pieces(ProductFragments) \cup ProductEdgeRaws}
                     ELSE {List(l) : l \in AllergenLists \cup AllergenKeyLists \cup AllergenEdgeLists
                                          \cup AllergenMarkerLists}
                          \cup {Str(r) : r \in AllergenStrings}) :
           last = [op |-> "pending", arg |-> [fn |-> op, raw |-> raw], c |-> [ret |-> None]]

Canonicalize(fn, out) ==
    /\ last.op = "pending"
    /\ last.arg.fn = fn
    /\ last' = [op |-> fn, arg |-> last.arg.raw, c |-> [ret |-> Str(out)]]
    /\ UNCHANGED <<is_loaded, model, iface, thread>>

PreprocessIngredients ==
    Canonicalize("_preprocess_ingredients", _preprocess_ingredients(last.arg.raw.v))
NormalizeProductName ==
    Canonicalize("_normalize_product_name", _normalize_product_name(last.arg.raw.v))
ProcessAllergenProfile ==
    Canonicalize("_process_allergen_profile", _process_allergen_profile(last.arg.raw))

NextCanon ==
    \/ PreprocessIngredients
    \/ NormalizeProductName
    \/ ProcessAllergenProfile

SpecCanon == InitCanon /\ [][NextCanon]_vars

\* C10: two allergen lists with the same set of elements (any permutation, any
\* duplication) give the same profile; ["wheat","eggs","milk"] and
\* ["milk","wheat","eggs"] both give "contains dairy, egg, gluten".
AllergenOrderIndependent ==
    (last.op = "_process_allergen_profile" /\ last.arg.t = "list") =>
        /\ \A m \in AllergenLists :
               Range(m) = Range(last.arg.v) => Str(_process_allergen_profile(List(m))) = last.c.ret
        /\ last.arg.v \in {<<Chars("wheat"), Chars("eggs"), Chars("milk")>>,
                           <<Chars("milk"), Chars("wheat"), Chars("eggs")>>} =>
               last.c.ret = Str(Chars("contains dairy, egg, gluten"))

AllergenOrderWitness ==
    /\ last.op = "_process_allergen_profile"
    /\ last.arg = List(<<Chars("milk"), Chars("wheat"), Chars("eggs")>>)
    /\ last.c.ret = Str(Chars("contains dairy, egg, gluten"))

\* the set of normalized tokens of an allergen input
TokenSet(allergens) ==
    {NormalizeAllergen(t) : t \in Range(allergen_list(allergens)) \ {<<>>}} \ {<<>>}
\* the sequence that lists a set of str exactly once each in strictly ascending order
Ascending(S) ==
    CHOOSE l \in [1..Cardinality(S) -> S] : \A i \in 1..(Cardinality(S) - 1) : StrLess(l[i], l[i + 1])
ProfileOf(S) ==
    IF S = {} THEN Chars("no known allergens")
    ELSE Chars("contains ") \o join(Chars(", "), Ascending(S))

\* C11: _process_allergen_profile returns "no known allergens" exactly when the set
\* of normalized tokens is empty, and otherwise "contains " followed by the
\* normalized tokens, each once, in strictly ascending order, joined with ", ".
AllergenProfileFormat ==
    last.op = "_process_allergen_profile" =>
        /\ (last.c.ret = Str(Chars("no known allergens"))) <=> (TokenSet(last.arg) = {})
        /\ last.c.ret = Str(ProfileOf(TokenSet(last.arg)))

AllergenProfileFormatWitness ==
    /\ last.op = "_process_allergen_profile"
    /\ last.arg = List(<<Chars("tree-nuts"), Chars("tree_nuts")>>)
    /\ last.c.ret = Str(Chars("contains tree nuts"))

\* the fixed table of allergen names
MappingTable ==
    (Chars("milk") :> Chars("dairy")) @@ (Chars("eggs") :> Chars("egg")) @@
    (Chars("tree-nuts") :> Chars("tree nuts")) @@ (Chars("tree_nuts") :> Chars("tree nuts")) @@
    (Chars("peanuts") :> Chars("peanut")) @@ (Chars("shellfish") :> Chars("shellfish")) @@
    (Chars("fish") :> Chars("fish")) @@ (Chars("wheat") :> Chars("gluten")) @@
    (Chars("soy") :> Chars("soy")) @@ (Chars("sesame") :> Chars("sesame"))
\* a token lower-cased and with "en:" and "allergens:" removed
Unprefixed(t) == replace(replace(lower(t), Chars("en:"), <<>>), Chars("allergens:"), <<>>)
\* the table applied once to a token, every other token unchanged
MappedOnce(t) ==
    IF Unprefixed(t) \in DOMAIN MappingTable THEN MappingTable[Unprefixed(t)] ELSE Unprefixed(t)

\* C12: each raw token, lower-cased and with "en:" and "allergens:" removed, is
\* replaced by its value in the fixed table when it is a key of the table and
\* passes through unchanged otherwise; the table is applied once.
AllergenTableApplied ==
    (last.op = "_process_allergen_profile" /\ last.arg.t = "list") =>
        last.c.ret = Str(ProfileOf({MappedOnce(strip(t)) : t \in Range(last.arg.v)} \ {<<>>}))

AllergenTableWitness ==
    /\ last.op = "_process_allergen_profile"
    /\ last.arg = List(<<Chars("en:Wheat")>>)
    /\ last.c.ret = Str(Chars("contains gluten"))

NoiseMarkers == {Chars("ingredients:"), Chars("contains:"), Chars("may contain:")}

\* C20: the output of _preprocess_ingredients contains none of the markers
\* "ingredients:", "contains:", "may contain:" anywhere, also when the raw text
\* nests a marker inside another occurrence of it.
NoNoiseMarkerInIngredients ==
    last.op = "_preprocess_ingredients" =>
        \A marker \in NoiseMarkers : ~Contains(last.c.ret.v, marker)

NoNoiseMarkerWitness ==
    /\ last.op = "_preprocess_ingredients"
    /\ last.arg = Str(Chars("ingredingredients:ients:"))
    /\ last.c.ret = Str(Chars("ingredients"))

\* two commas of s with nothing but whitespace between them
DoubledComma(s) ==
    \E i, j \in DOMAIN s :
        /\ i < j
        /\ s[i] = "," /\ s[j] = ","
        /\ \A k \in (i + 1)..(j - 1) : IsSpace(s[k])

\* C21: the output of _preprocess_ingredients contains no doubled punctuation: no
\* two commas adjacent or separated only by whitespace (a run of commas of any
\* length is collapsed to one), and no "!!", "??" or ";;".
NoDoubledPunctuation ==
    last.op = "_preprocess_ingredients" =>
        /\ ~DoubledComma(last.c.ret.v)
        /\ \A c \in {"!", "?", ";"} : ~Contains(last.c.ret.v, <<c, c>>)

\* C22: the output of _preprocess_ingredients contains neither "cane sugar" nor
\* "sea salt", and a "wheat flour" or "natural flavor" of the lower-cased input
\* appears in it as "flour wheat" or "natural flavoring".
SynonymsFolded ==
    last.op = "_preprocess_ingredients" =>
        /\ ~Contains(last.c.ret.v, Chars("cane sugar"))
        /\ ~Contains(last.c.ret.v, Chars("sea salt"))
        /\ Contains(lower(last.arg.v), Chars("wheat flour")) =>
               Contains(last.c.ret.v, Chars("flour wheat"))
        /\ Contains(lower(last.arg.v), Chars("natural flavor")) =>
               Contains(last.c.ret.v, Chars("natural flavoring"))

\* the five phrases and what each is rewritten to, in the listed order
PhraseTable ==
    <<<<Chars("wheat flour"), Chars("flour wheat")>>, <<Chars("cane sugar"), Chars("sugar")>>,
      <<Chars("sea salt"), Chars("salt")>>, <<Chars("natural flavor"), Chars("natural flavoring")>>,
      <<Chars("artificial flavor"), Chars("artificial flavoring")>>>>

RECURSIVE SimultaneousFrom(_, _)
\* one left-to-right pass over s from index i: a phrase that starts at the current
\* index is rewritten and skipped, any other character is copied
SimultaneousFrom(s, i) ==
    IF i > Len(s) THEN <<>>
    ELSE IF \E k \in DOMAIN PhraseTable : MatchAt(s, i, PhraseTable[k][1])
         THEN LET k == CHOOSE n \in DOMAIN PhraseTable : MatchAt(s, i, PhraseTable[n][1])
              IN  PhraseTable[k][2] \o SimultaneousFrom(s, i + Len(PhraseTable[k][1]))
         ELSE <<s[i]>> \o SimultaneousFrom(s, i + 1)
SimultaneousRewrite(s) == SimultaneousFrom(s, 1)

\* two phrase occurrences of s share a character
PhrasesOverlap(s) ==
    \E i, j \in DOMAIN s, k, n \in DOMAIN PhraseTable :
        /\ i < j
        /\ j < i + Len(PhraseTable[k][1])
        /\ MatchAt(s, i, PhraseTable[k][1])
        /\ MatchAt(s, j, PhraseTable[n][1])

\* the statements of _preprocess_ingredients that follow the phrase rewrites
IngredientCleanup(s) == strip(SubCommas(SubSpaces(SubKeepIngredientChars(s))))

\* C23 as claimed: for every input the five rewrites in sequence give the result
\* of one simultaneous pass over the phrase occurrences of the marker-stripped
\* lower-cased input.
RewritesEqualSimultaneousPass ==
    last.op = "_preprocess_ingredients" =>
        /\ PhraseRewrites(MarkerStripped(last.arg.v)) = SimultaneousRewrite(MarkerStripped(last.arg.v))
        /\ last.c.ret.v = IngredientCleanup(SimultaneousRewrite(MarkerStripped(last.arg.v)))

\* C23: for every input in which no two phrase occurrences overlap, the five
\* rewrites in sequence give the result of one simultaneous pass over the phrase
\* occurrences of the marker-stripped lower-cased input: no rewrite matches text
\* that an earlier rewrite produced.
RewritesEqualSimultaneousPassUnlessOverlap ==
    (last.op = "_preprocess_ingredients" /\ ~PhrasesOverlap(MarkerStripped(last.arg.v))) =>
        /\ PhraseRewrites(MarkerStripped(last.arg.v)) = SimultaneousRewrite(MarkerStripped(last.arg.v))
        /\ last.c.ret.v = IngredientCleanup(SimultaneousRewrite(MarkerStripped(last.arg.v)))

RewritesWitness ==
    /\ last.op = "_preprocess_ingredients"
    /\ last.arg = Str(Chars("Wheat Flour, Natural Flavor"))
    /\ last.c.ret = Str(Chars("flour wheat, natural flavoring"))

LowerCase(s) == \A i \in DOMAIN s : s[i] \notin Range(UpperLetters)
Trimmed(s) == s = <<>> \/ (~IsSpace(s[1]) /\ ~IsSpace(s[Len(s)]))
NoWhitespaceRun(s) == \A i \in 1..(Len(s) - 1) : ~(IsSpace(s[i]) /\ IsSpace(s[i + 1]))
OnlyChars(s, allowed) == \A i \in DOMAIN s : IsWord(s[i]) \/ s[i] \in allowed

\* C24: the output of each canonicalizer is lower-case, has no leading or trailing
\* whitespace and no run of two or more whitespace characters; ingredient output
\* holds only word characters, spaces, commas, periods and hyphens; product-name
\* output holds only word characters, spaces and hyphens, no two hyphens adjacent.
CanonicalTextInvariants ==
    last.op \in {"_preprocess_ingredients", "_normalize_product_name", "_process_allergen_profile"} =>
        /\ LowerCase(last.c.ret.v)
        /\ Trimmed(last.c.ret.v)
        /\ NoWhitespaceRun(last.c.ret.v)
        /\ last.op = "_preprocess_ingredients" => OnlyChars(last.c.ret.v, {" ", ",", ".", "-"})
        /\ last.op = "_normalize_product_name" =>
               (OnlyChars(last.c.ret.v, {" ", "-"}) /\ ~Contains(last.c.ret.v, <<"-", "-">>))

\* the whitespace-delimited words of a text
Words(s) == Range(split(s))

\* C25: when a brand-suffix token (brand, co., inc., ltd., llc) or a generic
\* descriptor (original, classic, traditional) occurs as a whitespace-delimited word
\* of the raw product name, in any letter case, the output contains none of brand,
\* co, inc, ltd, llc, original, classic, traditional as a whole word.
BrandWordsRemoved ==
    (/\ last.op = "_normalize_product_name"
     /\ Words(lower(last.arg.v)) \cap
            {Chars("brand"), Chars("co."), Chars("inc."), Chars("ltd."), Chars("llc"),
             Chars("original"), Chars("classic"), Chars("traditional")} # {}) =>
        Words(last.c.ret.v) \cap
            {Chars("brand"), Chars("co"), Chars("inc"), Chars("ltd"), Chars("llc"),
             Chars("original"), Chars("classic"), Chars("traditional")} = {}

\* C26: the output of _normalize_product_name contains none of "choc chip", "w/",
\* "&"; a "choc chip" or "choc. chip" of the input appears as "chocolate chip", a
\* "w/" as "with" and an "&" as "and".
AbbreviationsExpanded ==
    last.op = "_normalize_product_name" =>
        /\ ~Contains(last.c.ret.v, Chars("choc chip"))
        /\ ~Contains(last.c.ret.v, Chars("w/"))
        /\ ~Contains(last.c.ret.v, <<"&">>)
        /\ (Contains(lower(last.arg.v), Chars("choc chip"))
                \/ Contains(lower(last.arg.v), Chars("choc. chip"))) =>
               Contains(last.c.ret.v, Chars("chocolate chip"))
        /\ Contains(lower(last.arg.v), Chars("w/")) => Contains(last.c.ret.v, Chars("with"))
        /\ Contains(last.arg.v, <<"&">>) => Contains(last.c.ret.v, Chars("and"))

RECURSIVE WithoutMarkers(_)
\* a token with "en:" and "allergens:" removed until neither occurs
WithoutMarkers(t) ==
    IF Contains(t, Chars("en:")) \/ Contains(t, Chars("allergens:"))
    THEN WithoutMarkers(replace(replace(t, Chars("en:"), <<>>), Chars("allergens:"), <<>>))
    ELSE t

\* C27: the output of _process_allergen_profile contains neither "en:" nor
\* "allergens:", and a token that differs from a key of the table only by such
\* markers is mapped like the bare key.
AllergenMarkersStripped ==
    last.op = "_process_allergen_profile" =>
        /\ ~Contains(last.c.ret.v, Chars("en:"))
        /\ ~Contains(last.c.ret.v, Chars("allergens:"))
        /\ (last.arg.t = "list" /\ Len(last.arg.v) = 1
                /\ WithoutMarkers(lower(strip(last.arg.v[1]))) \in DOMAIN MappingTable) =>
               last.c.ret.v = Chars("contains ")
                                 \o MappingTable[WithoutMarkers(lower(strip(last.arg.v[1])))]

(***************************************************************************)
(* Concurrent callers: each thread calls generate_embedding on one         *)
(* service; a step is one statement of generate_embedding or load_model.   *)
(***************************************************************************)
InitThreads ==
    /\ is_loaded = FALSE
    /\ model = NoModel
    /\ iface = FALSE
    /\ last = [op |-> "__init__", arg |-> None, c |-> Untouched(FreshService, None)]
    /\ thread = [t \in Threads |-> ThreadIdle]

\* the thread moves to pc; the service is left as it is
Goto(t, pc) ==
    /\ thread' = [thread EXCEPT ![t].pc = pc]
    /\ UNCHANGED <<is_loaded, model, iface, last>>

\* a caller enters generate_embedding
ThreadCall(t) ==
    /\ thread[t].pc = "idle"
    /\ Goto(t, "guard")

\* "if not self.is_loaded and not self.load_model()": the read of is_loaded
ThreadGuard(t) ==
    /\ thread[t].pc = "guard"
    /\ Goto(t, IF is_loaded THEN "encode" ELSE "load_model")

\* load_model: "if self.is_loaded: return True"
ThreadLoadModel(t) ==
    /\ thread[t].pc = "load_model"
    /\ Goto(t, IF is_loaded THEN "encode" ELSE "construct")

\* "self.model = SentenceTransformer(self.model_name)": the constructor returns
ThreadConstruct(t) ==
    /\ thread[t].pc = "construct"
    /\ model' = Loaded
    /\ thread' = [thread EXCEPT ![t].pc = "set_loaded", ![t].built = @ + 1]
    /\ UNCHANGED <<is_loaded, iface, last>>

\* the constructor raises: load_model returns False, generate_embedding returns None
ThreadConstructRaises(t) ==
    /\ thread[t].pc = "construct"
    /\ thread' = [thread EXCEPT ![t].pc = "idle", ![t].ret = None]
    /\ UNCHANGED <<is_loaded, model, iface, last>>

\* "self.is_loaded = True"; load_model returns True
ThreadSetLoaded(t) ==
    /\ thread[t].pc = "set_loaded"
    /\ is_loaded' = TRUE
    /\ thread' = [thread EXCEPT ![t].pc = "encode"]
    /\ UNCHANGED <<model, iface, last>>

\* "self.model.encode([text], ...)": a vector, or None when encode raises or
\* self.model is still None
ThreadEncode(t) ==
    /\ thread[t].pc = "encode"
    /\ \E ret \in (IF model = NoModel THEN {None} ELSE {None, UnitVector}) :
           thread' = [thread EXCEPT ![t].pc = "idle", ![t].ret = ret]
    /\ UNCHANGED <<is_loaded, model, iface, last>>

NextThreads ==
    \E t \in Threads :
        \/ ThreadCall(t)
        \/ ThreadGuard(t)
        \/ ThreadLoadModel(t)
        \/ ThreadConstruct(t)
        \/ ThreadConstructRaises(t)
        \/ ThreadSetLoaded(t)
        \/ ThreadEncode(t)

SpecThreads == InitThreads /\ [][NextThreads]_vars

RECURSIVE Constructed(_)
\* the number of SentenceTransformer objects the threads of T have constructed
Constructed(T) ==
    IF T = {} THEN 0
    ELSE LET t == CHOOSE x \in T : TRUE IN thread[t].built + Constructed(T \ {t})

\* C19: under every interleaving of threads calling generate operations on one
\* service whose model is not yet loaded, the model is initialized once (the
\* constructor runs at most once) and no call finds is_loaded true while model
\* is unset.
ModelInitializedOnce ==
    /\ Constructed(Threads) <= 1
    /\ is_loaded => model # NoModel
    /\ \A t \in Threads : thread[t].pc = "encode" => model # NoModel

AllergenRuleNeverRejects ==
    (last.op = "generate_allergen_embedding" /\ last.c.gate # "not called") =>
        /\ \/ last.c.text = Str(Chars("no known allergens"))
           \/ startswith(last.c.text.v, Chars("contains "))
        /\ Rule(6, last.c.vec, "allergen", last.c.text)
        /\ last.c.gate = "False" => FirstFailing(last.c.vec, "allergen", last.c.text) \in 1..5

AllergenRuleWitness ==
    /\ last.op = "generate_allergen_embedding"
    /\ last.c.text = Str(Chars("contains dairy, egg, gluten"))
    /\ last.c.vec = SmallVector
    /\ last.c.gate = "False"

\* C30: the zero-vector rule is never the first rule that fails: a finite vector
\* of 384 elements that are all within 1e-6 of zero has a norm below 0.1 and is
\* rejected by the magnitude rule.
ZeroRuleNeverFirstFailing ==
    Validated =>
        /\ last.c.log # "Zero embedding generated"
        /\ (/\ last.arg.embedding.t = "ndarray"
            /\ len(last.arg.embedding.runs) = 384
            /\ \A x \in Elements(last.arg.embedding) : x.k = "fin" /\ x.m \in {0 - 1, 0, 1}) =>
               (last.c.ret = Bool(FALSE) /\ last.c.log = "Unusual embedding magnitude")

ZeroRuleWitness ==
    /\ Validated
    /\ last.arg.embedding = Uniform(1, 384)
    /\ last.c.ret = Bool(FALSE)
    /\ last.c.log = "Unusual embedding magnitude"

====
